---- MODULE Spec2Model ----
(***************************************************************************)
(* ZCAP-LD invocation verification (pkg/zcapld/verify.go).                 *)
(*                                                                         *)
(* A Verifier holds a CapabilityResolver.  Verify(proof, invocation) runs  *)
(* verifyCapabilityChain and then isInvoker.  Each call of Verify is a     *)
(* process whose program counter walks the checks of the source in order;  *)
(* several calls may run on the same Verifier at once.                     *)
(***************************************************************************)
EXTENDS Naturals, Sequences, FiniteSets

\* ------------------------------------------------------------------ bounds

\* Longest delegation chain ("capabilityChain") of a capability.
MaxChainLen == 2

\* Number of Verify calls that may be in flight on one Verifier.
NumCalls == 2

Calls == 1..NumCalls

\* ------------------------------------------------------------- data model

URIs == {"urn:cap:a", "urn:cap:b"}

\* "" is the unset string.
OptURIs == URIs \cup {""}

IntendedActions == {"", "read", "delete"}

ExpectedActions == {"", "read"}

AllowedActionLists == {<<>>, <<"write", "read">>}

\* An entry of the untyped capabilityChain array: a string (a URI) or
\* anything else (an embedded document).
StringEntry(u) == [isString |-> TRUE, value |-> u]

DocEntry == [isString |-> FALSE, value |-> "{document}"]

ChainEntries == {StringEntry("urn:cap:a"), DocEntry}

RECURSIVE SeqsUpTo(_, _)
SeqsUpTo(S, n) ==
    IF n = 0 THEN {<<>>}
    ELSE LET shorter == SeqsUpTo(S, n - 1)
         IN  shorter \cup {Append(s, e) : s \in {t \in shorter : Len(t) = n - 1}, e \in S}

\* The delegation proof of a capability document: whether
\* validateCapabilityChain accepts it, whether capabilityChain() can read
\* it, and the entries it holds.
ProofChains ==
    {[valid |-> TRUE, readable |-> TRUE, entries |-> es] : es \in SeqsUpTo(ChainEntries, MaxChainLen)}
    \cup {[valid |-> FALSE, readable |-> TRUE, entries |-> <<>>],
          [valid |-> TRUE, readable |-> FALSE, entries |-> <<>>]}

\* The invoker part of a capability document: malformed, or a list.
InvokerDocs ==
    {[malformed |-> FALSE, list |-> l] :
        l \in {<<>>, <<"did:ex:m1">>, <<"did:ex:c1">>, <<"">>, <<"did:ex:c1", "did:ex:m1">>}}
    \cup {[malformed |-> TRUE, list |-> <<>>]}

Capabilities ==
    [ID : URIs,
     InvocationTarget : [ID : URIs],
     AllowedAction : AllowedActionLists,
     proofChain : ProofChains,
     invokerDoc : InvokerDocs]

\* The nil *Capability.
Nil == [nil |-> TRUE]

VerificationMethods ==
    {[ID |-> "did:ex:m1", Controller |-> ""],
     [ID |-> "did:ex:m2", Controller |-> "did:ex:c1"],
     [ID |-> "did:ex:m2", Controller |-> ""]}

Proofs ==
    [Capability : Capabilities \cup {Nil},
     CapabilityAction : IntendedActions]

CapabilityInvocations ==
    [ExpectedAction : ExpectedActions,
     ExpectedTarget : OptURIs,
     ExpectedRootCapability : OptURIs,
     VerificationMethod : VerificationMethods]

\* Documents the resolver may hold: only ID and InvocationTarget are read
\* from a resolved root.
RootDocs ==
    {c \in Capabilities :
        /\ c.AllowedAction = <<>>
        /\ c.proofChain = [valid |-> TRUE, readable |-> TRUE, entries |-> <<>>]
        /\ c.invokerDoc = [malformed |-> FALSE, list |-> <<>>]}

NoDoc == CHOOSE c \in RootDocs : c.ID = "urn:cap:a" /\ c.InvocationTarget.ID = "urn:cap:a"

\* What Resolve(uri) answers: an error or a document.  The resolver is an
\* external collaborator whose store is fixed while calls run: the answer for
\* a URI is any of Answers, is settled when the URI is first dereferenced,
\* and is the same for every later Resolve of that URI.  NotAsked marks a
\* URI no call has dereferenced yet.
NotAsked == [asked |-> FALSE, err |-> FALSE, doc |-> NoDoc]

Answers ==
    {[asked |-> TRUE, err |-> TRUE, doc |-> NoDoc]}
    \cup {[asked |-> TRUE, err |-> FALSE, doc |-> d] : d \in RootDocs}

\* ------------------------------------------------------------------ state

VARIABLES
    zcaps,          \* Verifier.zcaps: the resolver, as its answer per URI
    pc,             \* per call: the check the call is about to evaluate
    proof,          \* per call: the *Proof argument
    invocation,     \* per call: the *CapabilityInvocation argument
    isRoot,         \* per call: local isRoot of verifyCapabilityChain
    rootURI,        \* per call: local rootURI
    capabilityChain,\* per call: local capabilityChain
    root,           \* per call: local root (the resolved document)
    result,         \* per call: the error Verify returned ("nil": none)
    checks,         \* per call: the checks evaluated so far, in order
    resolved        \* per call: the URIs passed to Resolve, in order

vars == <<zcaps, pc, proof, invocation, isRoot, rootURI, capabilityChain,
          root, result, checks, resolved>>

inputs == <<proof, invocation>>

locals == <<isRoot, rootURI, capabilityChain, root>>

\* ------------------------------------------------- helpers of the source

\* stringsContain with a loop that stops one element early.
stringsContainSkipLast(strs, s) == \E i \in 1..(Len(strs) - 1) : s = strs[i]

stringsContain(strs, s) == \E i \in 1..Len(strs) : s = strs[i]

\* Capability.validateCapabilityChain(): the error it returns.
validateCapabilityChain(capability) ==
    IF capability.proofChain.valid THEN "nil" ELSE "ChainStructureError"

\* Capability.capabilityChain(): the chain and the error it returns.
CapabilityChain(capability) ==
    IF capability.proofChain.readable
    THEN [chain |-> capability.proofChain.entries, err |-> "nil"]
    ELSE [chain |-> <<>>, err |-> "ChainFetchError"]

\* Capability.invokers(): the list and the error it returns.
invokers(capability) ==
    IF capability.invokerDoc.malformed
    THEN [list |-> <<>>, err |-> "InvokersError"]
    ELSE [list |-> capability.invokerDoc.list, err |-> "nil"]

\* isInvoker without the test that the controller is set.
isInvokerAnyController(capability, verificationMethod) ==
    LET fetched == invokers(capability)
        controller == verificationMethod.Controller
    IN  IF fetched.err # "nil"
        THEN [ok |-> FALSE, err |-> fetched.err]
        ELSE IF Len(fetched.list) > 0
        THEN [ok |-> \/ stringsContain(fetched.list, verificationMethod.ID)
                     \/ stringsContain(fetched.list, controller),
              err |-> "nil"]
        ELSE [ok |-> FALSE, err |-> "nil"]

\* isInvoker(capability, verificationMethod): the boolean and the error.
isInvoker(capability, verificationMethod) ==
    LET fetched == invokers(capability)
        controller == verificationMethod.Controller
    IN  IF fetched.err # "nil"
        THEN [ok |-> FALSE, err |-> fetched.err]
        ELSE IF Len(fetched.list) > 0
        THEN [ok |-> \/ stringsContain(fetched.list, verificationMethod.ID)
                     \/ (controller # "" /\ stringsContain(fetched.list, controller)),
              err |-> "nil"]
        ELSE [ok |-> FALSE, err |-> "nil"]

\* The action-scoping condition with the negation of stringsContain lost.
ActionNotAllowedNoNegation(capability, intendedAction) ==
    /\ Len(capability.AllowedAction) > 0
    /\ intendedAction # ""
    /\ stringsContain(capability.AllowedAction, intendedAction)

\* The condition of the first return of verifyCapabilityChain.
ActionNotAllowed(capability, intendedAction) ==
    /\ Len(capability.AllowedAction) > 0
    /\ intendedAction # ""
    /\ ~stringsContain(capability.AllowedAction, intendedAction)

\* The expected-action comparison made only when ExpectedAction is set.
ActionMismatchIfSet(inv, intendedAction) ==
    inv.ExpectedAction # "" /\ inv.ExpectedAction # intendedAction

ActionMismatch(inv, intendedAction) == inv.ExpectedAction # intendedAction

\* rootURI taken from the invoking capability whatever its chain.
RootURIOfSelf(capability, chain) == capability.ID

\* rootURI of verifyCapabilityChain, from the capability and its chain.
RootURIOf(capability, chain) ==
    IF Len(chain) = 0 THEN capability.ID ELSE chain[1].value

\* capabilityChain after the root entry was taken off it.
PopRoot(chain) == IF Len(chain) = 0 THEN chain ELSE Tail(chain)

\* The target comparison made against the root's ID.
TargetMismatchRootID(inv, rootDoc) ==
    inv.ExpectedTarget # "" /\ inv.ExpectedTarget # rootDoc.ID

TargetMismatch(inv, rootDoc) ==
    inv.ExpectedTarget # "" /\ inv.ExpectedTarget # rootDoc.InvocationTarget.ID

\* The root comparison made against the root's invocation target.
RootMismatchTarget(inv, rootDoc) ==
    inv.ExpectedRootCapability # ""
    /\ inv.ExpectedRootCapability # rootDoc.InvocationTarget.ID

RootMismatch(inv, rootDoc) ==
    inv.ExpectedRootCapability # "" /\ inv.ExpectedRootCapability # rootDoc.ID

RootIntegrityError(inv, rootDoc) ==
    inv.ExpectedRootCapability = "" /\ rootDoc.InvocationTarget.ID # rootDoc.ID

\* The depth test off by one.
UnsupportedChainDepthOffByOne(rootFlag, chain) == ~rootFlag /\ Len(chain) > 1

UnsupportedChainDepth(rootFlag, chain) == ~rootFlag /\ Len(chain) > 0

\* The resolved document kept in one place shared by all calls.
StoreRootShared(c, doc) == [k \in Calls |-> doc]

\* The local the resolved document is kept in.
StoreRoot(c, doc) == [root EXCEPT ![c] = doc]

\* verifyCapabilityChain run to its return on one resolver: the error it
\* returns ("nil": none).
verifyCapabilityChain(capability, intendedAction, inv, resolver) ==
    IF ActionNotAllowed(capability, intendedAction) THEN "ActionNotAllowed"
    ELSE IF ActionMismatch(inv, intendedAction) THEN "ActionMismatch"
    ELSE IF validateCapabilityChain(capability) # "nil"
    THEN validateCapabilityChain(capability)
    ELSE IF CapabilityChain(capability).err # "nil"
    THEN CapabilityChain(capability).err
    ELSE LET chain == CapabilityChain(capability).chain
             rootFlag == Len(chain) = 0
         IN  IF ~rootFlag /\ ~chain[1].isString THEN "InvalidRootURI"
             ELSE LET answer == resolver[RootURIOf(capability, chain)]
                  IN  IF answer.err THEN "ResolutionFailure"
                      ELSE IF TargetMismatch(inv, answer.doc) THEN "TargetMismatch"
                      ELSE IF RootMismatch(inv, answer.doc) THEN "RootMismatch"
                      ELSE IF RootIntegrityError(inv, answer.doc) THEN "RootIntegrityError"
                      ELSE IF UnsupportedChainDepth(rootFlag, PopRoot(chain))
                      THEN "UnsupportedChainDepth"
                      ELSE "nil"

\* Verify run to its return on one resolver: the error it returns.
Verify(p, inv, resolver) ==
    IF p.Capability = Nil THEN "MissingCapability"
    ELSE LET err == verifyCapabilityChain(p.Capability, p.CapabilityAction, inv, resolver)
         IN  IF err # "nil" THEN err
             ELSE LET answer == isInvoker(p.Capability, inv.VerificationMethod)
                  IN  IF answer.err # "nil" THEN answer.err
                      ELSE IF ~answer.ok THEN "InvokerUnauthorized"
                      ELSE "nil"

\* --------------------------------------------------------- control flow

Return(c, e) ==
    /\ pc' = [pc EXCEPT ![c] = "done"]
    /\ result' = [result EXCEPT ![c] = e]

Goto(c, label) ==
    /\ pc' = [pc EXCEPT ![c] = label]
    /\ UNCHANGED result

Evaluated(c, check) == checks' = [checks EXCEPT ![c] = Append(@, check)]

\* ---------------------------------------------------------------- Verify

\* if proof.Capability == nil
CheckCapability(c) ==
    /\ pc[c] = "Verify"
    /\ Evaluated(c, "capability")
    /\ IF proof[c].Capability = Nil
       THEN Return(c, "MissingCapability")
       ELSE Goto(c, "actionScope")
    /\ UNCHANGED <<zcaps, inputs, locals, resolved>>

\* 1.1 the intended action, if given, is in allowedAction
CheckActionScope(c) ==
    /\ pc[c] = "actionScope"
    /\ Evaluated(c, "actionScope")
    /\ IF ActionNotAllowed(proof[c].Capability, proof[c].CapabilityAction)
       THEN Return(c, "ActionNotAllowed")
       ELSE Goto(c, "expectedAction")
    /\ UNCHANGED <<zcaps, inputs, locals, resolved>>

\* The expected-action check without its return.
CheckExpectedActionNoStop(c) ==
    /\ pc[c] = "expectedAction"
    /\ Evaluated(c, "expectedAction")
    /\ Goto(c, "validateChain")
    /\ UNCHANGED <<zcaps, inputs, locals, resolved>>

CheckExpectedAction(c) ==
    /\ pc[c] = "expectedAction"
    /\ Evaluated(c, "expectedAction")
    /\ IF ActionMismatch(invocation[c], proof[c].CapabilityAction)
       THEN Return(c, "ActionMismatch")
       ELSE Goto(c, "validateChain")
    /\ UNCHANGED <<zcaps, inputs, locals, resolved>>

ValidateChain(c) ==
    /\ pc[c] = "validateChain"
    /\ Evaluated(c, "validateChain")
    /\ LET err == validateCapabilityChain(proof[c].Capability)
       IN  IF err # "nil" THEN Return(c, err) ELSE Goto(c, "fetchChain")
    /\ UNCHANGED <<zcaps, inputs, locals, resolved>>

FetchChain(c) ==
    /\ pc[c] = "fetchChain"
    /\ Evaluated(c, "fetchChain")
    /\ LET fetched == CapabilityChain(proof[c].Capability)
       IN  /\ capabilityChain' = [capabilityChain EXCEPT ![c] = fetched.chain]
           /\ IF fetched.err # "nil" THEN Return(c, fetched.err) ELSE Goto(c, "rootURI")
    /\ UNCHANGED <<zcaps, inputs, isRoot, rootURI, root, resolved>>

\* isRoot, rootURI, and the type assertion on the first chain entry
ExtractRoot(c) ==
    /\ pc[c] = "rootURI"
    /\ Evaluated(c, "rootURI")
    /\ LET chain == capabilityChain[c]
           rootFlag == Len(chain) = 0
       IN  /\ isRoot' = [isRoot EXCEPT ![c] = rootFlag]
           /\ capabilityChain' = [capabilityChain EXCEPT ![c] = PopRoot(chain)]
           /\ IF ~rootFlag /\ ~chain[1].isString
              THEN /\ Return(c, "InvalidRootURI")
                   /\ UNCHANGED rootURI
              ELSE /\ rootURI' = [rootURI EXCEPT ![c] = RootURIOf(proof[c].Capability, chain)]
                   /\ Goto(c, "resolve")
    /\ UNCHANGED <<zcaps, inputs, root, resolved>>

\* root, err := v.zcaps.Resolve(rootURI)
ResolveRoot(c) ==
    /\ pc[c] = "resolve"
    /\ Evaluated(c, "resolve")
    /\ resolved' = [resolved EXCEPT ![c] = Append(@, rootURI[c])]
    /\ \E answer \in Answers :
         /\ zcaps[rootURI[c]].asked => answer = zcaps[rootURI[c]]
         /\ zcaps' = [zcaps EXCEPT ![rootURI[c]] = answer]
         /\ IF answer.err
            THEN /\ Return(c, "ResolutionFailure")
                 /\ UNCHANGED root
            ELSE /\ root' = StoreRoot(c, answer.doc)
                 /\ Goto(c, "target")
    /\ UNCHANGED <<inputs, isRoot, rootURI, capabilityChain>>

\* 4.1 the expected target, if one was specified
CheckTarget(c) ==
    /\ pc[c] = "target"
    /\ Evaluated(c, "target")
    /\ IF TargetMismatch(invocation[c], root[c])
       THEN Return(c, "TargetMismatch")
       ELSE Goto(c, "expectedRoot")
    /\ UNCHANGED <<zcaps, inputs, locals, resolved>>

\* 4.3 the root capability is the expected one
CheckExpectedRoot(c) ==
    /\ pc[c] = "expectedRoot"
    /\ Evaluated(c, "expectedRoot")
    /\ IF RootMismatch(invocation[c], root[c])
       THEN Return(c, "RootMismatch")
       ELSE Goto(c, "rootIntegrity")
    /\ UNCHANGED <<zcaps, inputs, locals, resolved>>

CheckRootIntegrity(c) ==
    /\ pc[c] = "rootIntegrity"
    /\ Evaluated(c, "rootIntegrity")
    /\ IF RootIntegrityError(invocation[c], root[c])
       THEN Return(c, "RootIntegrityError")
       ELSE Goto(c, "chainDepth")
    /\ UNCHANGED <<zcaps, inputs, locals, resolved>>

\* if isRoot { return nil }; if len(capabilityChain) > 0 { return error }
CheckChainDepth(c) ==
    /\ pc[c] = "chainDepth"
    /\ Evaluated(c, "chainDepth")
    /\ IF UnsupportedChainDepth(isRoot[c], capabilityChain[c])
       THEN Return(c, "UnsupportedChainDepth")
       ELSE Goto(c, "invoker")
    /\ UNCHANGED <<zcaps, inputs, locals, resolved>>

\* 3. verify the invoker
CheckInvoker(c) ==
    /\ pc[c] = "invoker"
    /\ Evaluated(c, "invoker")
    /\ LET answer == isInvoker(proof[c].Capability, invocation[c].VerificationMethod)
       IN  IF answer.err # "nil" THEN Return(c, answer.err)
           ELSE IF ~answer.ok THEN Return(c, "InvokerUnauthorized")
           ELSE Return(c, "nil")
    /\ UNCHANGED <<zcaps, inputs, locals, resolved>>

Step(c) ==
    \/ CheckCapability(c)
    \/ CheckActionScope(c)
    \/ CheckExpectedAction(c)
    \/ ValidateChain(c)
    \/ FetchChain(c)
    \/ ExtractRoot(c)
    \/ ResolveRoot(c)
    \/ CheckTarget(c)
    \/ CheckExpectedRoot(c)
    \/ CheckRootIntegrity(c)
    \/ CheckChainDepth(c)
    \/ CheckInvoker(c)

Next == \E c \in Calls : Step(c)

\* ------------------------------------------------------------------ Init

\* NewVerifier: nothing has been resolved yet; no call has run a check.
Fresh ==
    /\ zcaps = [u \in URIs |-> NotAsked]
    /\ isRoot = [c \in Calls |-> FALSE]
    /\ rootURI = [c \in Calls |-> ""]
    /\ capabilityChain = [c \in Calls |-> <<>>]
    /\ root = [c \in Calls |-> NoDoc]
    /\ result = [c \in Calls |-> "nil"]
    /\ checks = [c \in Calls |-> <<>>]
    /\ resolved = [c \in Calls |-> <<>>]

IdleProof == [Capability |-> Nil, CapabilityAction |-> ""]

IdleInvocation ==
    [ExpectedAction |-> "", ExpectedTarget |-> "", ExpectedRootCapability |-> "",
     VerificationMethod |-> [ID |-> "did:ex:m1", Controller |-> ""]]

\* One call of Verify, on any proof and any invocation.
Init ==
    /\ Fresh
    /\ pc = [c \in Calls |-> IF c = 1 THEN "Verify" ELSE "idle"]
    /\ \E p \in Proofs, i \in CapabilityInvocations :
         /\ proof = [c \in Calls |-> IF c = 1 THEN p ELSE IdleProof]
         /\ invocation = [c \in Calls |-> IF c = 1 THEN i ELSE IdleInvocation]

Spec == Init /\ [][Next]_vars

\* Concurrent calls of Verify on one Verifier: every call is in flight, on
\* proofs of root and of delegated capabilities.
ConcProofs ==
    {p \in Proofs :
        /\ p.Capability # Nil
        /\ p.CapabilityAction = "read"
        /\ p.Capability.AllowedAction = <<>>
        /\ p.Capability.InvocationTarget.ID = p.Capability.ID
        /\ p.Capability.proofChain.valid
        /\ p.Capability.proofChain.readable
        /\ p.Capability.proofChain.entries \in {<<>>, <<StringEntry("urn:cap:a")>>}
        /\ p.Capability.invokerDoc = [malformed |-> FALSE, list |-> <<"did:ex:m1">>]}

ConcInvocations ==
    {i \in CapabilityInvocations :
        /\ i.ExpectedAction = "read"
        /\ i.ExpectedTarget = ""
        /\ i.ExpectedRootCapability = ""
        /\ i.VerificationMethod = [ID |-> "did:ex:m1", Controller |-> ""]}

InitConc ==
    /\ Fresh
    /\ pc = [c \in Calls |-> "Verify"]
    /\ proof \in [Calls -> ConcProofs]
    /\ invocation \in [Calls -> ConcInvocations]

SpecConc == InitConc /\ [][Next]_vars

\* ----------------------------------------------------------- properties

Range(seq) == {seq[i] : i \in 1..Len(seq)}

Returned(c) == pc[c] = "done"

Succeeded(c) == Returned(c) /\ result[c] = "nil"

Cap(c) == proof[c].Capability

Inv(c) == invocation[c]

Action(c) == proof[c].CapabilityAction

Chain(c) == Cap(c).proofChain.entries

\* The root URI of call c: capability.ID when the chain is empty, otherwise
\* the chain's first entry.
ExpectedRootURI(c) == IF Chain(c) = <<>> THEN Cap(c).ID ELSE Chain(c)[1].value

\* What the resolver answers for the root URI of call c.
RootAnswer(c) == zcaps[ExpectedRootURI(c)]

ScopeOK(c) ==
    Cap(c).AllowedAction = <<>> \/ Action(c) = "" \/ Action(c) \in Range(Cap(c).AllowedAction)

ActionOK(c) == Inv(c).ExpectedAction = Action(c)

RootURIOK(c) == Chain(c) = <<>> \/ Chain(c)[1].isString

ResolveOK(c) == RootAnswer(c).asked /\ ~RootAnswer(c).err

TargetOK(c) ==
    Inv(c).ExpectedTarget = "" \/ Inv(c).ExpectedTarget = RootAnswer(c).doc.InvocationTarget.ID

ExpectedRootOK(c) ==
    Inv(c).ExpectedRootCapability = "" \/ Inv(c).ExpectedRootCapability = RootAnswer(c).doc.ID

RootIntegrityOK(c) ==
    Inv(c).ExpectedRootCapability # ""
    \/ RootAnswer(c).doc.InvocationTarget.ID = RootAnswer(c).doc.ID

DepthOK(c) == Len(Chain(c)) <= 1

InvokerOK(c) ==
    LET vm == Inv(c).VerificationMethod
        list == Cap(c).invokerDoc.list
    IN  /\ ~Cap(c).invokerDoc.malformed
        /\ list # <<>>
        /\ vm.ID \in Range(list) \/ (vm.Controller # "" /\ vm.Controller \in Range(list))

\* C1: whenever Verify returns nil, the capability is non-nil, the expected
\* action equals the intended action, the intended action is within a
\* non-empty AllowedAction when given, the resolver returned a root for the
\* root URI without error, the expected target is unset or equals the root's
\* target, the root identity check passed, no chain entry is left after the
\* root URI, and the verification method or its non-empty controller is an
\* invoker of the capability.
C1_Soundness ==
    \A c \in Calls :
        Succeeded(c) =>
            /\ Cap(c) # Nil
            /\ ActionOK(c)
            /\ ScopeOK(c)
            /\ resolved[c] = <<ExpectedRootURI(c)>>
            /\ ResolveOK(c)
            /\ TargetOK(c)
            /\ ExpectedRootOK(c)
            /\ RootIntegrityOK(c)
            /\ DepthOK(c)
            /\ InvokerOK(c)

C1_Witness ==
    \E c \in Calls :
        /\ Succeeded(c)
        /\ Len(Chain(c)) = 1
        /\ Cap(c).AllowedAction # <<>>
        /\ Action(c) # ""
        /\ Inv(c).ExpectedTarget # ""
        /\ Inv(c).ExpectedRootCapability # ""

\* C2 as stated: a non-nil capability whose non-empty AllowedAction does not
\* contain the intended action always gets the action-not-allowed error.
C2_AsStated ==
    \A c \in Calls :
        (/\ Returned(c)
         /\ Cap(c) # Nil
         /\ Cap(c).AllowedAction # <<>>
         /\ Action(c) \notin Range(Cap(c).AllowedAction))
        => result[c] = "ActionNotAllowed"

\* C2 amended: a non-nil capability whose non-empty AllowedAction does not
\* contain the intended action gets the action-not-allowed error when the
\* intended action is non-empty, whatever the invocation and the resolver.
C2_ActionNotAllowed ==
    \A c \in Calls :
        (/\ Returned(c)
         /\ Cap(c) # Nil
         /\ Cap(c).AllowedAction # <<>>
         /\ Action(c) # ""
         /\ Action(c) \notin Range(Cap(c).AllowedAction))
        => result[c] = "ActionNotAllowed"

C2_Witness ==
    \E c \in Calls :
        /\ Returned(c)
        /\ Cap(c) # Nil
        /\ Cap(c).AllowedAction # <<>>
        /\ Action(c) = "delete"
        /\ Inv(c).ExpectedAction = "read"
        /\ result[c] = "ActionNotAllowed"

\* C3 as stated: an invocation whose ExpectedAction differs from the
\* intended action always gets the action-mismatch error, whatever
\* AllowedAction contains.
C3_AsStated ==
    \A c \in Calls :
        (Returned(c) /\ Cap(c) # Nil /\ ~ActionOK(c)) => result[c] = "ActionMismatch"

\* C3 amended: an invocation whose ExpectedAction differs from the intended
\* action gets the action-mismatch error when the capability is non-nil and
\* the intended action passes the action-scoping check.
C3_ActionMismatch ==
    \A c \in Calls :
        (Returned(c) /\ Cap(c) # Nil /\ ScopeOK(c) /\ ~ActionOK(c))
        => result[c] = "ActionMismatch"

C3_Witness ==
    \E c \in Calls :
        /\ Returned(c)
        /\ Cap(c) # Nil
        /\ Cap(c).AllowedAction # <<>>
        /\ Action(c) = "read"
        /\ Inv(c).ExpectedAction = ""
        /\ result[c] = "ActionMismatch"

\* C4: Verify never succeeds without exactly one Resolve call on the root
\* URI (capability.ID for an empty chain, else the chain's first entry),
\* also when the capability is itself the root; and when that call answers
\* with an error, Verify returns an error and does not call Resolve again.
C4_RootDereferenced ==
    \A c \in Calls :
        /\ Succeeded(c) => resolved[c] = <<ExpectedRootURI(c)>> /\ ResolveOK(c)
        /\ Len(resolved[c]) <= 1
        /\ (resolved[c] # <<>> /\ zcaps[resolved[c][1]].err)
           => (pc[c] = "done" /\ result[c] = "ResolutionFailure")

C4_Witness ==
    \E c \in Calls :
        /\ Succeeded(c)
        /\ Chain(c) = <<>>
        /\ resolved[c] = <<Cap(c).ID>>

\* C5 as stated: on a resolved root, a non-empty ExpectedRootCapability that
\* differs from root.ID gives the root-mismatch error, and an empty one with
\* root.InvocationTarget.ID different from root.ID gives the root-integrity
\* error.
C5_AsStated ==
    \A c \in Calls :
        (Returned(c) /\ "resolve" \in Range(checks[c]) /\ ResolveOK(c)) =>
            /\ ~ExpectedRootOK(c) => result[c] = "RootMismatch"
            /\ ~RootIntegrityOK(c) => result[c] = "RootIntegrityError"

\* C5 amended: on a resolved root that passes the target check, a non-empty
\* ExpectedRootCapability that differs from root.ID gives the root-mismatch
\* error, and an empty one with root.InvocationTarget.ID different from
\* root.ID gives the root-integrity error, for root and delegated
\* capabilities alike.
C5_RootIdentity ==
    \A c \in Calls :
        (Returned(c) /\ "resolve" \in Range(checks[c]) /\ ResolveOK(c) /\ TargetOK(c)) =>
            /\ ~ExpectedRootOK(c) => result[c] = "RootMismatch"
            /\ ~RootIntegrityOK(c) => result[c] = "RootIntegrityError"

C5_Witness ==
    \E c \in Calls :
        /\ Returned(c)
        /\ Cap(c) # Nil
        /\ Chain(c) = <<>>
        /\ result[c] = "RootMismatch"
        /\ Inv(c).ExpectedRootCapability = "urn:cap:a"
        /\ root[c].ID = "urn:cap:b"

\* C6: a capability whose chain keeps one or more entries after the root
\* URI is taken off never verifies, and gets the unsupported-chain-depth
\* error when every other check of the chain passes.
C6_DeepChainRejected ==
    \A c \in Calls :
        (Returned(c) /\ Cap(c) # Nil /\ Len(Chain(c)) >= 2) =>
            /\ result[c] # "nil"
            /\ (/\ ScopeOK(c)
                /\ Cap(c).proofChain.valid
                /\ Cap(c).proofChain.readable
                /\ ActionOK(c)
                /\ RootURIOK(c)
                /\ ResolveOK(c)
                /\ TargetOK(c)
                /\ ExpectedRootOK(c)
                /\ RootIntegrityOK(c))
               => result[c] = "UnsupportedChainDepth"

C6_Witness ==
    \E c \in Calls :
        /\ Returned(c)
        /\ Cap(c) # Nil
        /\ Len(Chain(c)) >= 2
        /\ InvokerOK(c)
        /\ result[c] = "UnsupportedChainDepth"

\* C7: the invoker check succeeds if and only if the invoker list is
\* non-empty and holds the method's ID, or holds the method's non-empty
\* Controller; an empty list never passes, and a method whose Controller
\* alone is listed passes.
C7_InvokerMatching ==
    \A c \in Calls :
        (Returned(c) /\ "invoker" \in Range(checks[c])) =>
            (result[c] = "nil" <=> InvokerOK(c))

C7_Witness ==
    \E c \in Calls :
        /\ Succeeded(c)
        /\ Inv(c).VerificationMethod = [ID |-> "did:ex:m2", Controller |-> "did:ex:c1"]
        /\ Cap(c).invokerDoc.list = <<"did:ex:c1">>

\* C8 as stated: a capability with an empty chain whose InvocationTarget.ID
\* equals its ID and whose invoker list holds the verification method ID
\* always verifies.
C8_AsStated ==
    \A c \in Calls :
        (/\ Returned(c)
         /\ Cap(c) # Nil
         /\ Cap(c).proofChain.valid /\ Cap(c).proofChain.readable /\ Chain(c) = <<>>
         /\ Cap(c).InvocationTarget.ID = Cap(c).ID
         /\ ~Cap(c).invokerDoc.malformed
         /\ Inv(c).VerificationMethod.ID \in Range(Cap(c).invokerDoc.list))
        => result[c] = "nil"

\* C8 amended: a capability with an empty chain whose InvocationTarget.ID
\* equals its ID and whose invoker list holds the verification method ID
\* verifies when the action-scoping and expected-action checks pass and the
\* resolver answers capability.ID, without error, with a root that passes
\* the target and root identity checks.
C8_RootSelfReference ==
    \A c \in Calls :
        (/\ Returned(c)
         /\ Cap(c) # Nil
         /\ Cap(c).proofChain.valid /\ Cap(c).proofChain.readable /\ Chain(c) = <<>>
         /\ Cap(c).InvocationTarget.ID = Cap(c).ID
         /\ ~Cap(c).invokerDoc.malformed
         /\ Inv(c).VerificationMethod.ID \in Range(Cap(c).invokerDoc.list)
         /\ ScopeOK(c)
         /\ ActionOK(c)
         /\ zcaps[Cap(c).ID].asked /\ ~zcaps[Cap(c).ID].err
         /\ TargetOK(c)
         /\ ExpectedRootOK(c)
         /\ RootIntegrityOK(c))
        => result[c] = "nil"

C8_Witness ==
    \E c \in Calls :
        /\ Succeeded(c)
        /\ Chain(c) = <<>>
        /\ Cap(c).InvocationTarget.ID = Cap(c).ID
        /\ root[c].ID = Cap(c).ID
        /\ Cap(c).invokerDoc.list = <<"did:ex:c1", "did:ex:m1">>
        /\ Inv(c).VerificationMethod.ID = "did:ex:m1"

\* The checks of Verify in the order of the source.
CheckOrder ==
    <<"capability", "actionScope", "expectedAction", "validateChain", "fetchChain",
      "rootURI", "resolve", "target", "expectedRoot", "rootIntegrity", "chainDepth",
      "invoker">>

\* Whether call c passes the named check, read off its arguments and the
\* resolver's answers.
Passes(c, check) ==
    CASE check = "capability" -> Cap(c) # Nil
      [] check = "actionScope" -> ScopeOK(c)
      [] check = "expectedAction" -> ActionOK(c)
      [] check = "validateChain" -> Cap(c).proofChain.valid
      [] check = "fetchChain" -> Cap(c).proofChain.readable
      [] check = "rootURI" -> RootURIOK(c)
      [] check = "resolve" -> ResolveOK(c)
      [] check = "target" -> TargetOK(c)
      [] check = "expectedRoot" -> ExpectedRootOK(c)
      [] check = "rootIntegrity" -> RootIntegrityOK(c)
      [] check = "chainDepth" -> DepthOK(c)
      [] check = "invoker" -> InvokerOK(c)

\* The errors the named check returns.
ErrorsOf(check) ==
    CASE check = "capability" -> {"MissingCapability"}
      [] check = "actionScope" -> {"ActionNotAllowed"}
      [] check = "expectedAction" -> {"ActionMismatch"}
      [] check = "validateChain" -> {"ChainStructureError"}
      [] check = "fetchChain" -> {"ChainFetchError"}
      [] check = "rootURI" -> {"InvalidRootURI"}
      [] check = "resolve" -> {"ResolutionFailure"}
      [] check = "target" -> {"TargetMismatch"}
      [] check = "expectedRoot" -> {"RootMismatch"}
      [] check = "rootIntegrity" -> {"RootIntegrityError"}
      [] check = "chainDepth" -> {"UnsupportedChainDepth"}
      [] check = "invoker" -> {"InvokersError", "InvokerUnauthorized"}

\* C10: the checks are evaluated in the order of CheckOrder and stop at the
\* first one that fails, whose error Verify returns; Resolve is called at
\* most once, and exactly when the resolve step is reached; the invoker
\* check is evaluated only after every check of the chain passed.
C10_FirstFailureStops ==
    \A c \in Calls :
        LET n == Len(checks[c])
        IN  /\ n <= Len(CheckOrder)
            /\ \A i \in 1..n : checks[c][i] = CheckOrder[i]
            /\ Len(resolved[c]) <= 1
            /\ resolved[c] # <<>> <=> "resolve" \in Range(checks[c])
            /\ \A i \in 1..n : (i < n \/ ~Returned(c)) => Passes(c, checks[c][i])
            /\ Returned(c) =>
                 /\ n >= 1
                 /\ IF result[c] = "nil"
                    THEN n = Len(CheckOrder) /\ Passes(c, checks[c][n])
                    ELSE ~Passes(c, checks[c][n]) /\ result[c] \in ErrorsOf(checks[c][n])

C10_Witness ==
    \E c \in Calls :
        /\ Returned(c)
        /\ result[c] = "RootMismatch"
        /\ ~InvokerOK(c)
        /\ Len(Chain(c)) = 2
        /\ checks[c] = SubSeq(CheckOrder, 1, 9)
        /\ Len(resolved[c]) = 1

\* C9: with a resolver whose answers are fixed, every call returns what
\* Verify returns when run alone on the same proof and invocation, so calls
\* on identical arguments return identical results under any interleaving;
\* no step changes a proof, a capability, an invocation, or an answer the
\* resolver has given.
C9_Stateless ==
    /\ [](\A c \in Calls :
            Returned(c) => result[c] = Verify(proof[c], invocation[c], zcaps))
    /\ [](\A c, d \in Calls :
            (/\ Returned(c) /\ Returned(d)
             /\ proof[c] = proof[d] /\ invocation[c] = invocation[d])
            => result[c] = result[d])
    /\ [][/\ proof' = proof
          /\ invocation' = invocation
          /\ \A u \in URIs : zcaps[u].asked => zcaps'[u] = zcaps[u]]_vars

C9_Witness ==
    \E c, d \in Calls :
        /\ c # d
        /\ Returned(c)
        /\ pc[d] = "target"
        /\ proof[c] = proof[d]
        /\ invocation[c] = invocation[d]
        /\ result[c] = "RootIntegrityError"
        /\ Len(checks[c]) > Len(checks[d])

====
